---------------------------- MODULE Spec2Model ----------------------------
(***************************************************************************)
(* The frame loop of the RustZX frontend, RustzxApp::start                 *)
(* (src/rustzx/src/app/rustzx.rs), as a state machine.                     *)
(*                                                                         *)
(* One iteration of the 'emulator loop is cut into six steps, one action   *)
(* each, in the order of the source:                                       *)
(*   "emulate" lines 118-122, "audio" lines 123-135, "video" lines 136-161,*)
(*   "poll" lines 162-193, "sleep" lines 194-200, "title" lines 201-210.   *)
(* The emulator, the sound/video/event devices and the clock are the       *)
(* environment: what they return is drawn from small sets, what is called  *)
(* on them is logged.  Durations are whole nanoseconds, as                 *)
(* std::time::Duration keeps them.                                         *)
(*                                                                         *)
(* Spec is the loop with events arriving as it runs; FrameTargetSpec is    *)
(* frame_length at every rate; PresentSpec is the loop at each display     *)
(* scale; QueueSpec is the loop on a queue that is there from the start,   *)
(* with every step taken in the end.                                       *)
(***************************************************************************)
EXTENDS Integers, Sequences, FiniteSets, TLC

VARIABLES
    pc,               \* position of the loop: the step to run next, or "done"
    iter,             \* iterations of the loop begun so far
    fps,              \* the target rate handed to frame_length (FPS)
    frame_target_dt,  \* local of line 118, ns
    cpu_dt,           \* local of line 122: what emulate_frames returned, ns
    clock,            \* frame_start.elapsed() as of now, ns
    emulation_dt,     \* local of line 195, ns
    debug,            \* local of line 114
    title,            \* the window title held by the video device
    snd,              \* self.snd is Some(..)
    scale,            \* self.scale, the display scale factor
    haveSound,        \* what emulator.have_sound() returns now
    speed,            \* the speed last given to emulator.set_speed
    kempston,         \* emulator.controller.kempston is Some(..)
    mixer,            \* emulator.controller.mixer: queued samples
    events,           \* the event device's pending events, oldest first
    event,            \* what pop_event returned at line 163 of this iteration
    polls,            \* history: pop_event calls made so far
    consumed,         \* history: events pop_event has handed out so far
    exit_polled,      \* history: pop_event has returned Exit
    calls             \* log: the device and emulator calls of this iteration

vars == <<pc, iter, fps, frame_target_dt, cpu_dt, clock, emulation_dt, debug,
          title, snd, scale, haveSound, speed, kempston, mixer, events, event,
          polls, consumed, exit_polled, calls>>

---------------------------------------------------------------------------
(* Bounds of the model *)

\* iterations of the loop that are explored
MaxIter == 3
\* events that enter the event device over a run
MaxEvents == 2
\* samples the mixer queue holds at most
MaxMixer == 2
\* largest fps frame_length is applied to in FrameTargetSpec
MaxFps == 1100
\* significand width of the floating-point model (f64 has 53; a narrower
\* significand rounds more coarsely, so what holds here holds for f64)
MantissaBits == 16

---------------------------------------------------------------------------
(* Constants of the program *)

\* Duration::from_millis: nanoseconds in a millisecond
NsPerMs == 1000000
\* rustzx_core::zx::constants::FPS
FPS == 50
\* line 20
MAX_FRAME_TIME == 100 * NsPerMs

---------------------------------------------------------------------------
(* Values *)

Call(op, args) == [op |-> op, args |-> args]
Ev(kind, args) == [kind |-> kind, args |-> args]

NoEvent == Ev("None", <<>>)
Exit == Ev("Exit", <<>>)
SwitchDebug == Ev("SwitchDebug", <<>>)
InsertTape == Ev("InsertTape", <<>>)
StopTape == Ev("StopTape", <<>>)
GameKey(key, state) == Ev("GameKey", <<key, state>>)
ChangeSpeed(s) == Ev("ChangeSpeed", <<s>>)
Kempston(key, state) == Ev("Kempston", <<key, state>>)
OpenFile(path) == Ev("OpenFile", <<path>>)

\* the events the event device may deliver in the model: one of each kind
\* (the emulator starts at speed 1, so ChangeSpeed(2) changes it; a key
\* is a number, its state 1 for pressed and 0 for released)
EventChoices ==
    {Exit, SwitchDebug, InsertTape, StopTape, GameKey(1, 0),
     ChangeSpeed(2), Kempston(2, 1), OpenFile(1)}

\* the n samples emulate_frames queues in one call: the loop never looks
\* into a sample, so they are told apart by their place alone
NewSamples(n) == [i \in 1..n |-> i]

\* <<cpu time returned by emulate_frames, wall time of the iteration up to
\* line 195>>, ns: below the 20 ms target, one ns below it, on it, above it
WorkChoices ==
    {<<5 * NsPerMs, 5 * NsPerMs>>,
     <<5 * NsPerMs + 1000, 20 * NsPerMs - 1>>,
     <<5 * NsPerMs, 20 * NsPerMs>>,
     <<25 * NsPerMs, 25 * NsPerMs>>}

\* by how much thread::sleep may oversleep, ns
OverrunChoices == {0, 500000}

DefaultTitle == [kind |-> "default", cpu |-> 0, frame |-> 0]

Last(s) == s[Len(s)]

---------------------------------------------------------------------------
(* Floating point, as far as frame_length needs it.  A float is <<n, d>>,  *)
(* the rational n / d with d a power of two and n of at most MantissaBits  *)
(* significant bits; every operation rounds to nearest, ties to even.      *)
(* Where an operation is handed the result of another, the result is       *)
(* bound first ({f(x) : x \in {e}} has the one element f(e)), so that it   *)
(* is worked out once.                                                     *)

Pow2(n) == 2 ^ n

\* n / d rounded to the nearest integer, ties to the even one
RoundHalfEven(n, d) ==
    LET q == n \div d
        r == n % d
    IN  IF 2 * r < d THEN q
        ELSE IF 2 * r > d THEN q + 1
        ELSE IF q % 2 = 0 THEN q ELSE q + 1

RECURSIVE ScaleUp(_, _, _)
\* the least power of two k >= s with n * k / d >= 2^(MantissaBits - 1)
ScaleUp(n, d, s) ==
    IF n * s >= Pow2(MantissaBits - 1) * d THEN s ELSE ScaleUp(n, d, 2 * s)

RECURSIVE ScaleDown(_, _, _)
\* the least power of two k >= s with n / (d * k) < 2^MantissaBits
ScaleDown(n, d, s) ==
    IF n < Pow2(MantissaBits) * d * s THEN s ELSE ScaleDown(n, d, 2 * s)

RECURSIVE Reduce(_, _)
\* n / d in lowest terms, d a power of two
Reduce(n, d) ==
    IF d > 1 /\ n % 2 = 0 THEN Reduce(n \div 2, d \div 2) ELSE <<n, d>>

\* the float nearest to the rational n / d (n >= 0, d > 0)
f64_round(n, d) ==
    IF n = 0 THEN <<0, 1>>
    ELSE IF n < Pow2(MantissaBits) * d
         THEN LET k == ScaleUp(n, d, 1)
              IN  CHOOSE r \in {Reduce(m, e) : m \in {RoundHalfEven(n * k, d)},
                                               e \in {k}} : TRUE
         ELSE LET k == ScaleDown(n, d, 1)
              IN  <<RoundHalfEven(n, d * k) * k, 1>>

\* `x as f64` of an unsigned integer
f64_from(x) == f64_round(x, 1)

\* a / b on f64: the exact quotient, rounded
f64_div(a, b) ==
    CHOOSE q \in {f64_round(n, d) : n \in {a[1] * b[2]},
                                    d \in {a[2] * b[1]}} : TRUE

\* a bug `as u64` could hide: rounding to the nearest integer
f64_to_u64_rounding(x) == RoundHalfEven(x[1], x[2])

\* `x as u64` of a non-negative float: the fraction is dropped
f64_to_u64(x) == x[1] \div x[2]

\* Duration::from_millis
from_millis(ms) == ms * NsPerMs

\* Duration::as_millis: whole milliseconds, the rest dropped
as_millis(d) == d \div NsPerMs

\* lines 52-55
frame_length(f) == from_millis(f64_to_u64(f64_div(f64_from(1000), f64_from(f))))

\* a bug line 197 could hold: the coefficients the other way round
wait_koef_swapped(sound) == IF sound THEN 10 ELSE 9

\* line 197
wait_koef(sound) == IF sound THEN 9 ELSE 10

\* a bug line 199 could hold: the sleep taken in whole milliseconds
sleep_duration_whole_ms(target, elapsed, sound) ==
    from_millis(as_millis(((target - elapsed) * wait_koef(sound)) \div 10))

\* a bug lines 197-199 could hold: the coefficient of 9 only with a sound
\* device, as the drain of line 124 has it
sleep_duration_with_device(target, elapsed, sound) ==
    ((target - elapsed) * wait_koef(sound /\ snd)) \div 10

\* line 199: Duration * u32 / u32, in whole nanoseconds
sleep_duration(target, elapsed, sound) ==
    ((target - elapsed) * wait_koef(sound)) \div 10

---------------------------------------------------------------------------
(* The state after from_config, at the entry of start (lines 113-116) *)

Init ==
    /\ pc = "emulate"
    /\ iter = 0
    /\ fps = FPS
    /\ frame_target_dt = 0
    /\ cpu_dt = 0
    /\ clock = 0
    /\ emulation_dt = 0
    /\ debug = FALSE
    /\ title = DefaultTitle
    /\ snd \in BOOLEAN
    /\ scale = 1
    /\ haveSound \in BOOLEAN
    /\ speed = 1
    /\ kempston \in BOOLEAN
    /\ mixer = <<>>
    /\ events = <<>>
    /\ event = NoEvent
    /\ polls = 0
    /\ consumed = 0
    /\ exit_polled = FALSE
    /\ calls = <<>>

---------------------------------------------------------------------------
(* The environment: an event enters the event device.  The loop reads the  *)
(* device at line 163 only, so an arrival is taken where its order to that *)
(* read shows: right before a read (which stands for any moment since the  *)
(* read before it), and once the loop has ended.                           *)

PushEvent ==
    /\ pc \in {"poll", "done"}
    /\ consumed + Len(events) < MaxEvents
    /\ \E e \in EventChoices : events' = Append(events, e)
    /\ UNCHANGED <<pc, iter, fps, frame_target_dt, cpu_dt, clock,
                   emulation_dt, debug, title, snd, scale, haveSound, speed,
                   kempston, mixer, event, polls, consumed, exit_polled, calls>>

---------------------------------------------------------------------------
(* Lines 117-122: the iteration begins with fresh locals and an empty log; *)
(* emulate_frames runs, queues no sample or as many as the queue takes,    *)
(* and returns the cpu time it took                                        *)

Emulate ==
    /\ pc = "emulate"
    /\ iter < MaxIter
    /\ iter' = iter + 1
    /\ frame_target_dt' = frame_length(fps)
    /\ \E w \in WorkChoices, n \in {0, MaxMixer - Len(mixer)} :
        /\ mixer' = mixer \o NewSamples(n)
        /\ cpu_dt' = w[1]
        /\ clock' = w[2]
    /\ emulation_dt' = 0
    /\ event' = NoEvent
    /\ calls' = <<Call("emulate_frames", <<MAX_FRAME_TIME>>)>>
    /\ pc' = "audio"
    /\ UNCHANGED <<fps, debug, title, snd, scale, haveSound, speed, kempston,
                   events, polls, consumed, exit_polled>>

---------------------------------------------------------------------------
(* Lines 123-135: the samples go to the sound device *)

\* a bug lines 124-126 could hold: the sound device is not asked for
may_drain_without_device == haveSound

\* a bug lines 124-126 could hold: have_sound() is not asked
may_drain_without_have_sound == snd

\* lines 124 and 126: a sound device exists and the emulator has sound
may_drain == snd /\ haveSound

\* a bug lines 127-133 could hold: `if let` for `loop`, one sample a frame
drain_one(q, log) ==
    IF q = <<>> THEN <<q, log>>
    ELSE <<Tail(q), Append(log, Call("send_sample", <<Head(q)>>))>>

RECURSIVE drain(_, _)
\* lines 127-133: pop until the mixer is empty, send each sample;
\* <<the mixer, the call log>> afterwards
drain(q, log) ==
    IF q = <<>> THEN <<q, log>>
    ELSE drain(Tail(q), Append(log, Call("send_sample", <<Head(q)>>)))

Audio ==
    /\ pc = "audio"
    /\ IF may_drain
       THEN LET r == drain(mixer, calls)
            IN  mixer' = r[1] /\ calls' = r[2]
       ELSE UNCHANGED <<mixer, calls>>
    /\ pc' = "video"
    /\ UNCHANGED <<iter, fps, frame_target_dt, cpu_dt, clock, emulation_dt,
                   debug, title, snd, scale, haveSound, speed, kempston,
                   events, event, polls, consumed, exit_polled>>

---------------------------------------------------------------------------
(* Lines 136-161: both textures are loaded, then one present cycle.        *)
(* 1 names the border texture and buffer, 2 the canvas ones.               *)

\* rustzx_core::zx::constants: the whole screen and the canvas in it, pixels
SCREEN_WIDTH == 320
SCREEN_HEIGHT == 240
CANVAS_WIDTH == 256
CANVAS_HEIGHT == 192
CANVAS_X == 32
CANVAS_Y == 24

Rect(x, y, w, h) == [x |-> x, y |-> y, w |-> w, h |-> h]

\* lines 145-150: the whole window
border_rect == Rect(0, 0, SCREEN_WIDTH * scale, SCREEN_HEIGHT * scale)

\* lines 154-159: the canvas at its place in the scaled window
canvas_rect ==
    Rect(CANVAS_X * scale, CANVAS_Y * scale,
         CANVAS_WIDTH * scale, CANVAS_HEIGHT * scale)

\* a bug lines 143-160 could hold: the canvas drawn first, under the border
video_calls_canvas_first ==
    <<Call("update_texture", <<1>>), Call("update_texture", <<2>>),
      Call("begin", <<>>), Call("draw_texture_2d", <<2, canvas_rect>>),
      Call("draw_texture_2d", <<1, border_rect>>), Call("end", <<>>)>>

video_calls ==
    <<Call("update_texture", <<1>>), Call("update_texture", <<2>>),
      Call("begin", <<>>), Call("draw_texture_2d", <<1, border_rect>>),
      Call("draw_texture_2d", <<2, canvas_rect>>), Call("end", <<>>)>>

Video ==
    /\ pc = "video"
    /\ calls' = calls \o video_calls
    /\ pc' = "poll"
    /\ UNCHANGED <<iter, fps, frame_target_dt, cpu_dt, clock, emulation_dt,
                   debug, title, snd, scale, haveSound, speed, kempston,
                   mixer, events, event, polls, consumed, exit_polled>>

---------------------------------------------------------------------------
(* Lines 162-193: one event is popped and handled.  Each handler gets the  *)
(* call log c that already holds the pop_event call.                       *)

\* a bug line 163 could hold: `while let` for `if let`, the queue is drained
after_dispatch_drain == IF Len(events) > 1 THEN "poll" ELSE "sleep"

\* lines 193-194: after the match the iteration goes on with the frame sync
after_dispatch == "sleep"

\* a bug line 166 could hold: `continue` for `break`
OnExit_continue(c) ==
    /\ pc' = "emulate"
    /\ calls' = c
    /\ UNCHANGED <<debug, title, speed, haveSound>>

\* a bug lines 165-167 could hold: no break, the iteration goes on
OnExit_no_break(c) ==
    /\ pc' = after_dispatch
    /\ calls' = c
    /\ UNCHANGED <<debug, title, speed, haveSound>>

\* lines 165-167
OnExit(c) ==
    /\ pc' = "done"
    /\ calls' = c
    /\ UNCHANGED <<debug, title, speed, haveSound>>

\* a bug lines 168-170 could hold: every key event taken as a press
OnGameKey_always_pressed(c, key, state) ==
    /\ pc' = after_dispatch
    /\ calls' = Append(c, Call("send_key", <<key, 1>>))
    /\ UNCHANGED <<debug, title, speed, haveSound>>

\* lines 168-170
OnGameKey(c, key, state) ==
    /\ pc' = after_dispatch
    /\ calls' = Append(c, Call("send_key", <<key, state>>))
    /\ UNCHANGED <<debug, title, speed, haveSound>>

\* a bug lines 173-176 could hold: the title is not reset on turning off
OnSwitchDebug_keep_title(c) ==
    /\ pc' = after_dispatch
    /\ debug' = ~debug
    /\ title' = title
    /\ calls' = c
    /\ UNCHANGED <<speed, haveSound>>

\* lines 171-177
OnSwitchDebug(c) ==
    /\ pc' = after_dispatch
    /\ debug' = ~debug
    /\ IF ~debug'
       THEN /\ title' = DefaultTitle
            /\ calls' = Append(c, Call("set_title", <<>>))
       ELSE /\ title' = title
            /\ calls' = c
    /\ UNCHANGED <<speed, haveSound>>

\* a bug lines 178-180 could hold: the speed is not forwarded as it came
OnChangeSpeed_fixed_speed(c, s) ==
    /\ pc' = after_dispatch
    /\ speed' = 1
    /\ haveSound' \in BOOLEAN
    /\ calls' = Append(c, Call("set_speed", <<1>>))
    /\ UNCHANGED <<debug, title>>

\* lines 178-180; set_speed may switch the emulator's sound on or off
\* (the comment of line 125)
OnChangeSpeed(c, s) ==
    /\ pc' = after_dispatch
    /\ speed' = s
    /\ haveSound' \in BOOLEAN
    /\ calls' = Append(c, Call("set_speed", <<s>>))
    /\ UNCHANGED <<debug, title>>

\* a bug lines 182-184 could hold: the joystick is not asked for
OnKempston_unchecked(c, key, state) ==
    /\ pc' = after_dispatch
    /\ calls' = Append(c, Call("joy_key", <<key, state>>))
    /\ UNCHANGED <<debug, title, speed, haveSound>>

\* lines 181-185
OnKempston(c, key, state) ==
    /\ pc' = after_dispatch
    /\ IF kempston
       THEN calls' = Append(c, Call("joy_key", <<key, state>>))
       ELSE calls' = c
    /\ UNCHANGED <<debug, title, speed, haveSound>>

\* line 186
OnInsertTape(c) ==
    /\ pc' = after_dispatch
    /\ calls' = Append(c, Call("tape_play", <<>>))
    /\ UNCHANGED <<debug, title, speed, haveSound>>

\* line 187
OnStopTape(c) ==
    /\ pc' = after_dispatch
    /\ calls' = Append(c, Call("tape_stop", <<>>))
    /\ UNCHANGED <<debug, title, speed, haveSound>>

\* a bug lines 188-191 could hold: the unhandled event ends the loop
OnOpenFile_break(c) ==
    /\ pc' = "done"
    /\ calls' = c
    /\ UNCHANGED <<debug, title, speed, haveSound>>

\* lines 188-191
OnOpenFile(c) ==
    /\ pc' = after_dispatch
    /\ calls' = c
    /\ UNCHANGED <<debug, title, speed, haveSound>>

\* a bug line 163 could hold: `while let` around the body, no event ends it
OnNone_break(c) ==
    /\ pc' = "done"
    /\ calls' = c
    /\ UNCHANGED <<debug, title, speed, haveSound>>

\* line 163, pop_event returned None: the match is skipped
OnNone(c) ==
    /\ pc' = after_dispatch
    /\ calls' = c
    /\ UNCHANGED <<debug, title, speed, haveSound>>

\* what pop_event returns: the oldest pending event, if any
pop_event == IF events = <<>> THEN NoEvent ELSE Head(events)

Poll ==
    /\ pc = "poll"
    /\ event' = pop_event
    /\ polls' = polls + 1
    /\ exit_polled' = (exit_polled \/ pop_event = Exit)
    /\ IF events = <<>>
       THEN UNCHANGED <<events, consumed>>
       ELSE events' = Tail(events) /\ consumed' = consumed + 1
    /\ LET e == pop_event
           c == Append(calls, Call("pop_event", <<>>))
       IN  CASE e.kind = "None" -> OnNone(c)
             [] e.kind = "Exit" -> OnExit(c)
             [] e.kind = "GameKey" -> OnGameKey(c, e.args[1], e.args[2])
             [] e.kind = "SwitchDebug" -> OnSwitchDebug(c)
             [] e.kind = "ChangeSpeed" -> OnChangeSpeed(c, e.args[1])
             [] e.kind = "Kempston" -> OnKempston(c, e.args[1], e.args[2])
             [] e.kind = "InsertTape" -> OnInsertTape(c)
             [] e.kind = "StopTape" -> OnStopTape(c)
             [] e.kind = "OpenFile" -> OnOpenFile(c)
    /\ UNCHANGED <<iter, fps, frame_target_dt, cpu_dt, clock, emulation_dt,
                   snd, scale, kempston, mixer>>

---------------------------------------------------------------------------
(* Lines 194-200: the frame sync *)

\* line 196
must_sleep(elapsed, target) == elapsed < target

Sleep ==
    /\ pc = "sleep"
    /\ emulation_dt' = clock
    /\ IF must_sleep(clock, frame_target_dt)
       THEN \E over \in OverrunChoices :
              LET d == sleep_duration(frame_target_dt, clock, haveSound)
              IN  /\ calls' = Append(calls, Call("sleep", <<d>>))
                  /\ clock' = clock + d + over
       ELSE UNCHANGED <<calls, clock>>
    /\ pc' = "title"
    /\ UNCHANGED <<iter, fps, frame_target_dt, cpu_dt, debug, title, snd,
                   scale, haveSound, speed, kempston, mixer, events, event,
                   polls, consumed, exit_polled>>

---------------------------------------------------------------------------
(* Lines 201-211: the debug title, then the next iteration *)

\* a bug lines 205-209 could hold: the frame time in both fields
DebugTitle_frame_twice(cpu, frame) ==
    [kind |-> "debug", cpu |-> as_millis(frame), frame |-> as_millis(frame)]

\* the characters of the decimal digits
DigitChars == <<"0", "1", "2", "3", "4", "5", "6", "7", "8", "9">>

RECURSIVE to_digits(_)
\* Display of an unsigned integer: its decimal digits, no sign, no point
to_digits(n) ==
    IF n < 10 THEN <<DigitChars[n + 1]>>
    ELSE Append(to_digits(n \div 10), DigitChars[(n % 10) + 1])

\* a text filled with blanks on the left up to a width, as numbers are
pad_left(text, width) ==
    [i \in 1..(IF Len(text) < width THEN width - Len(text) ELSE 0) |-> " "]
        \o text

\* `{:7.3}` of an integer (lines 206-208, as_millis() is a u128): width 7;
\* the precision .3 says nothing for an integer, no decimals are written
format_7_3(n) == pad_left(to_digits(n), 7)

\* the text format! makes at lines 205-209 of the two values it is given,
\* character by character
format_debug_title(cpu_ms, frame_ms) ==
    <<"C", "P", "U", ":", " ">> \o format_7_3(cpu_ms)
        \o <<"m", "s", ";", " ", "F", "R", "A", "M", "E", ":">>
        \o format_7_3(frame_ms) \o <<"m", "s">>

\* the text of a debug title held by the video device
title_text(t) == format_debug_title(t.cpu, t.frame)

\* the title of lines 205-209: both times through as_millis
DebugTitle(cpu, frame) ==
    [kind |-> "debug", cpu |-> as_millis(cpu), frame |-> as_millis(frame)]

Title ==
    /\ pc = "title"
    /\ IF debug
       THEN LET t == DebugTitle(cpu_dt, clock)
            IN  /\ title' = t
                /\ calls' = Append(calls, Call("set_title", <<t.cpu, t.frame>>))
       ELSE UNCHANGED <<title, calls>>
    /\ pc' = "emulate"
    /\ UNCHANGED <<iter, fps, frame_target_dt, cpu_dt, clock, emulation_dt,
                   debug, snd, scale, haveSound, speed, kempston, mixer,
                   events, event, polls, consumed, exit_polled>>

---------------------------------------------------------------------------

Next ==
    \/ PushEvent
    \/ Emulate
    \/ Audio
    \/ Video
    \/ Poll
    \/ Sleep
    \/ Title

Spec == Init /\ [][Next]_vars

---------------------------------------------------------------------------
(* frame_length on its own: line 118 of every iteration, for any rate *)

InitFrameTarget ==
    /\ pc = "emulate"
    /\ iter = 0
    /\ fps \in 1..MaxFps
    /\ frame_target_dt = 0
    /\ cpu_dt = 0
    /\ clock = 0
    /\ emulation_dt = 0
    /\ debug = FALSE
    /\ title = DefaultTitle
    /\ snd = FALSE
    /\ scale = 1
    /\ haveSound = FALSE
    /\ speed = 1
    /\ kempston = FALSE
    /\ mixer = <<>>
    /\ events = <<>>
    /\ event = NoEvent
    /\ polls = 0
    /\ consumed = 0
    /\ exit_polled = FALSE
    /\ calls = <<>>

FrameTarget ==
    /\ pc = "emulate"
    /\ iter < MaxIter
    /\ iter' = iter + 1
    /\ frame_target_dt' = frame_length(fps)
    /\ UNCHANGED <<pc, fps, cpu_dt, clock, emulation_dt, debug, title, snd,
                   scale, haveSound, speed, kempston, mixer, events, event,
                   polls, consumed, exit_polled, calls>>

FrameTargetSpec == InitFrameTarget /\ [][FrameTarget]_vars

---------------------------------------------------------------------------
(* The loop at each display scale: settings.scale is copied at line 81 and *)
(* read at line 115; no decision of the loop depends on it                 *)

\* the scale factors taken
ScaleChoices == {1, 2}

InitPresent ==
    /\ pc = "emulate"
    /\ iter = 0
    /\ fps = FPS
    /\ frame_target_dt = 0
    /\ cpu_dt = 0
    /\ clock = 0
    /\ emulation_dt = 0
    /\ debug = FALSE
    /\ title = DefaultTitle
    /\ snd \in BOOLEAN
    /\ scale \in ScaleChoices
    /\ haveSound \in BOOLEAN
    /\ speed = 1
    /\ kempston = FALSE
    /\ mixer = <<>>
    /\ events = <<>>
    /\ event = NoEvent
    /\ polls = 0
    /\ consumed = 0
    /\ exit_polled = FALSE
    /\ calls = <<>>

PresentSpec == InitPresent /\ [][Next]_vars

---------------------------------------------------------------------------
(* The loop on a queue that is there from the start and holds an Exit:     *)
(* nothing enters the event device while the loop runs, and every call the *)
(* loop makes returns, so a step that can be taken is taken in the end     *)

\* the queues taken: fewer than MaxEvents events other than Exit, then
\* Exit, then nothing or one event more (what it is makes no difference,
\* so two stand for all: another Exit and a key)
Queues ==
    {before \o <<Exit>> \o behind :
        before \in UNION {[1..n -> EventChoices \ {Exit}] :
                             n \in 0..(MaxEvents - 1)},
        behind \in {<<>>, <<Exit>>, <<GameKey(1, 0)>>}}

InitQueue ==
    /\ pc = "emulate"
    /\ iter = 0
    /\ fps = FPS
    /\ frame_target_dt = 0
    /\ cpu_dt = 0
    /\ clock = 0
    /\ emulation_dt = 0
    /\ debug = FALSE
    /\ title = DefaultTitle
    /\ snd \in BOOLEAN
    /\ scale = 1
    /\ haveSound = TRUE
    /\ speed = 1
    /\ kempston = TRUE
    /\ mixer = <<>>
    /\ events \in Queues
    /\ event = NoEvent
    /\ polls = 0
    /\ consumed = 0
    /\ exit_polled = FALSE
    /\ calls = <<>>

\* the steps of the loop itself
LoopNext ==
    \/ Emulate
    \/ Audio
    \/ Video
    \/ Poll
    \/ Sleep
    \/ Title

QueueSpec == InitQueue /\ [][LoopNext]_vars /\ WF_vars(LoopNext)

---------------------------------------------------------------------------
(* Reading the log *)

\* the calls of one operation, in the order they were made
CallsOf(log, op) == SelectSeq(log, LAMBDA c : c.op = op)

\* the sleep an iteration took, as the log shows it
SleepCalls == CallsOf(calls, "sleep")

\* everything but the event device's queue, which fills on its own
loop_vars == <<pc, iter, fps, frame_target_dt, cpu_dt, clock, emulation_dt,
               debug, title, snd, scale, haveSound, speed, kempston, mixer,
               event, polls, consumed, exit_polled, calls>>

\* the iteration has polled: its step is past line 163
Polled == pc \in {"sleep", "title", "done"} \/ (pc = "emulate" /\ iter > 0)

\* the iteration has passed the frame sync of lines 194-200
Synced == pc = "title" \/ (pc = "emulate" /\ iter > 0)

---------------------------------------------------------------------------
(* C1: when pop_event returns Exit, the loop is over there and then: the   *)
(* Exit came from the poll of the iteration begun last (as many polls as   *)
(* iterations, that poll the last call made), and once the loop is over    *)
(* nothing is called or changed any more: no further iteration, sample,    *)
(* video call, poll or emulator control call.                              *)

C1_ExitEndsLoop ==
    /\ [](event = Exit =>
            /\ pc = "done"
            /\ polls = iter
            /\ Last(calls) = Call("pop_event", <<>>))
    /\ [][pc = "done" => UNCHANGED loop_vars]_vars

\* the loop ended in its second iteration, with an event left behind Exit
C1_Witness == pc = "done" /\ event = Exit /\ iter = 2 /\ events # <<>>

---------------------------------------------------------------------------
\* one pop_event call in an iteration that has polled, none before; as
\* many polls as iterations; no more events consumed than polls made
C2_PollsOnce ==
    /\ Len(CallsOf(calls, "pop_event")) = (IF Polled THEN 1 ELSE 0)
    /\ polls = (IF Polled \/ iter = 0 THEN iter ELSE iter - 1)
    /\ consumed <= polls

\* the queue changes by a poll taking its head or by an arrival at its end
C2_QueueOrder ==
    events' # events =>
        \/ /\ pc = "poll"
           /\ events # <<>>
           /\ event' = Head(events)
           /\ events' = Tail(events)
           /\ consumed' = consumed + 1
        \/ /\ \E e \in EventChoices : events' = Append(events, e)
           /\ UNCHANGED loop_vars

(* C2: every iteration calls pop_event exactly once, so at most one event  *)
(* is consumed per iteration and K events are consumed after K iterations  *)
(* at the earliest; events leave the device from the head of its queue,    *)
(* one per poll, so they are seen in queue order.                          *)

---------------------------------------------------------------------------
(* C3: an iteration makes one set_speed call, with the value of the event, *)
(* right after its poll, if it polled ChangeSpeed, and none otherwise; the *)
(* emulator then runs at that speed.  So over a run the set_speed calls    *)
(* are the ChangeSpeed events polled, one for one and in order.            *)

C3_SpeedForwardedOnce ==
    IF event.kind = "ChangeSpeed"
    THEN /\ CallsOf(calls, "set_speed") = <<Call("set_speed", event.args)>>
         /\ \E i \in 1..(Len(calls) - 1) :
                /\ calls[i].op = "pop_event"
                /\ calls[i + 1] = Call("set_speed", event.args)
         /\ speed = event.args[1]
    ELSE CallsOf(calls, "set_speed") = <<>>

\* the second iteration polled ChangeSpeed(2) after the first one had
C3_Witness ==
    /\ pc = "title" /\ iter = 2 /\ consumed = 2
    /\ event = ChangeSpeed(2) /\ speed = 2

---------------------------------------------------------------------------
(* C4: an iteration that does not end with Exit sleeps once, for           *)
(* (target - elapsed) * 9 / 10 if the emulator has sound and for           *)
(* target - elapsed otherwise (in whole nanoseconds), when elapsed is      *)
(* below the target, and does not sleep when it is not; an iteration that  *)
(* has not come to the frame sync, or ends with Exit, has not slept.       *)

C4_SleepScaled ==
    IF Synced
    THEN IF emulation_dt < frame_target_dt
         THEN SleepCalls =
                <<Call("sleep",
                       <<((frame_target_dt - emulation_dt)
                            * (IF haveSound THEN 9 ELSE 10)) \div 10>>)>>
         ELSE SleepCalls = <<>>
    ELSE SleepCalls = <<>>

\* one nanosecond short of the target, with sound: a sleep of no length
C4_Witness ==
    /\ pc = "title" /\ haveSound
    /\ emulation_dt = frame_target_dt - 1
    /\ SleepCalls = <<Call("sleep", <<0>>)>>

---------------------------------------------------------------------------
(* C5 as stated: with a target of 20 ms and 5 ms elapsed the sleep is      *)
(* 15 ms without sound and 13 ms with sound.                               *)

C5_Original ==
    (Synced /\ frame_target_dt = 20 * NsPerMs /\ emulation_dt = 5 * NsPerMs)
        => SleepCalls =
             <<Call("sleep", <<(IF haveSound THEN 13 ELSE 15) * NsPerMs>>)>>

(* C5 as the code has it: with a target of 20 ms and 5 ms elapsed the      *)
(* sleep is 15 ms without sound and 13.5 ms (13 500 000 ns) with sound:    *)
(* the scaled sleep is cut to whole nanoseconds, not whole milliseconds.   *)

C5_Amended ==
    (Synced /\ frame_target_dt = 20 * NsPerMs /\ emulation_dt = 5 * NsPerMs)
        => SleepCalls =
             <<Call("sleep", <<IF haveSound THEN 13500000
                                            ELSE 15 * NsPerMs>>)>>

\* 5 ms elapsed of 20 ms, with sound
C5_Witness ==
    /\ pc = "title" /\ haveSound
    /\ frame_target_dt = 20 * NsPerMs /\ emulation_dt = 5 * NsPerMs
    /\ SleepCalls # <<>>

---------------------------------------------------------------------------
(* C6 (under FrameTargetSpec): for every rate fps from 1 to MaxFps,        *)
(* frame_length(fps) is floor(1000 / fps) ms: 20 ms at 50, 0 ms above      *)
(* 1000; and every iteration of the loop has this same target.             *)

C6_FrameLengthFloor ==
    iter > 0 =>
        /\ frame_target_dt = (1000 \div fps) * NsPerMs
        /\ fps = 50 => frame_target_dt = 20 * NsPerMs
        /\ fps > 1000 => frame_target_dt = 0

\* a rate that does not divide 1000, in the second iteration
C6_Witness == iter = 2 /\ fps = 7 /\ frame_target_dt = 142 * NsPerMs

---------------------------------------------------------------------------
\* a send_sample call for each queued sample, oldest first
C7_Sent == [i \in 1..Len(mixer) |-> Call("send_sample", <<mixer[i]>>)]

(* C7 as stated: whenever the emulator has sound at the audio step, that   *)
(* step sends every queued sample, in order, and leaves the mixer empty.   *)

C7_Original ==
    [][(pc = "audio" /\ haveSound)
          => (mixer' = <<>> /\ calls' = calls \o C7_Sent)]_vars

(* C7 as the code has it: whenever a sound device exists and the emulator  *)
(* has sound at the audio step, that step sends every queued sample, in    *)
(* the order they were queued, and leaves the mixer empty.                 *)

C7_Amended ==
    [][(pc = "audio" /\ snd /\ haveSound)
          => (mixer' = <<>> /\ calls' = calls \o C7_Sent)]_vars

\* two samples were queued and sent, the older first
C7_Witness ==
    /\ pc = "video" /\ snd /\ haveSound /\ mixer = <<>>
    /\ CallsOf(calls, "send_sample")
         = <<Call("send_sample", <<1>>), Call("send_sample", <<2>>)>>

---------------------------------------------------------------------------
(* C8: whenever the emulator has no sound at the audio step, that step     *)
(* pops nothing and sends nothing: the mixer and the log stay as they are, *)
(* also when the mixer holds samples.                                      *)

C8_NoDrainWithoutSound ==
    [][(pc = "audio" /\ ~haveSound)
          => (mixer' = mixer /\ calls' = calls)]_vars

\* past the audio step with a sound device, no sound and a full mixer
C8_Witness ==
    /\ pc = "video" /\ snd /\ ~haveSound
    /\ Len(mixer) = 2
    /\ CallsOf(calls, "send_sample") = <<>>

---------------------------------------------------------------------------
\* over exactly when Exit was polled, the poll the last call, no sleep
\* and no title in the iteration
C9_ExitState ==
    /\ event = Exit => pc = "done"
    /\ pc = "done" =>
        /\ event = Exit
        /\ Last(calls).op = "pop_event"
        /\ CallsOf(calls, "sleep") = <<>>
        /\ CallsOf(calls, "set_title") = <<>>

\* the poll of Exit ends the loop and touches neither title nor flag
C9_ExitStep ==
    /\ (pc = "poll" /\ polls' # polls /\ pop_event = Exit) =>
            /\ pc' = "done"
            /\ title' = title
            /\ debug' = debug
            /\ calls' = Append(calls, Call("pop_event", <<>>))
    /\ pc = "done" => (pc' = "done" /\ calls' = calls /\ title' = title)

(* C9: the iteration that polls Exit ends at the poll: it has not slept    *)
(* and has set no title, and the poll left the title and the debug flag    *)
(* alone, also with the debug flag set and less than the target elapsed;   *)
(* the loop is over only after an iteration that polled Exit, and then it  *)
(* stays over with nothing called any more.                                *)

C9_ExitIsImmediate == []C9_ExitState /\ [][C9_ExitStep]_vars

\* Exit polled with the debug flag set and 5 ms of 20 ms elapsed
C9_Witness ==
    /\ pc = "done" /\ debug
    /\ clock = 5 * NsPerMs /\ frame_target_dt = 20 * NsPerMs

---------------------------------------------------------------------------
(* C10: only an Exit event stops the loop: as long as pop_event has not    *)
(* returned Exit the loop is not over, whatever the emulator returned,     *)
(* whatever time passed and whatever other events came.                    *)

C10_OnlyExitStops == ~exit_polled => pc # "done"

\* two events other than Exit were consumed and the loop runs on
C10_Witness ==
    /\ pc = "title" /\ iter = 2 /\ consumed = 2 /\ ~exit_polled
    /\ event = StopTape /\ clock > frame_target_dt

---------------------------------------------------------------------------
\* the step is the poll of line 163 and pop_event returns SwitchDebug
PollsSwitchDebug == pc = "poll" /\ polls' # polls /\ pop_event = SwitchDebug

\* the iteration begun last has run to its end (line 211)
Completed == pc = "emulate" /\ iter > 0

\* the title is the overlay the title step of this iteration wrote
OverlayWritten ==
    /\ title.kind = "debug"
    /\ calls # <<>>
    /\ Last(calls) = Call("set_title", <<title.cpu, title.frame>>)

\* the flag is off until a poll; with the flag off the title is the
\* default one; a completed iteration leaves the overlay it wrote itself
\* exactly when the flag is set
C11_DebugState ==
    /\ polls = 0 => ~debug
    /\ ~debug => title = DefaultTitle
    /\ Completed => (OverlayWritten <=> debug)

\* the flag changes at a poll of SwitchDebug only, and such a poll inverts
\* it; turning it off sets the default title right after the poll
C11_DebugStep ==
    /\ debug' # debug => PollsSwitchDebug
    /\ PollsSwitchDebug => debug' = ~debug
    /\ (PollsSwitchDebug /\ debug) =>
            /\ title' = DefaultTitle
            /\ calls' = calls \o <<Call("pop_event", <<>>),
                                    Call("set_title", <<>>)>>

(* C11: the debug flag starts false and changes only when SwitchDebug is   *)
(* polled, which inverts it; turning it off sets the default title in that *)
(* iteration and the overlay does not replace it while the flag is off, so *)
(* at the end of every completed iteration the title is an overlay written *)
(* in that iteration if and only if the flag is set.                       *)

C11_DebugOverlay == []C11_DebugState /\ [][C11_DebugStep]_vars

\* the first iteration turned the flag on, the second turned it off and
\* ended with the default title, set once
C11_Witness ==
    /\ Completed /\ iter = 2 /\ consumed = 2 /\ event = SwitchDebug
    /\ ~debug /\ title = DefaultTitle
    /\ CallsOf(calls, "set_title") = <<Call("set_title", <<>>)>>

---------------------------------------------------------------------------
\* the overlay calls in the log: set_title with the two times
OverlayCalls ==
    SelectSeq(calls, LAMBDA c : c.op = "set_title" /\ c.args # <<>>)

\* the time the iteration slept, as the log shows it, ns
Slept == IF SleepCalls = <<>> THEN 0 ELSE SleepCalls[1].args[1]

(* C12: a completed iteration with the debug flag set, also the one whose  *)
(* SwitchDebug set it, has written the overlay once, as its last call,     *)
(* from the cpu time its own emulate_frames returned and from the time     *)
(* since its start read after the sleep (the time before the sleep, the    *)
(* sleep and what the sleep overran), each in whole milliseconds; a        *)
(* completed iteration with the flag off has written no overlay, and no    *)
(* iteration writes one before its last step.                              *)

C12_OverlayOncePerIteration ==
    IF Completed /\ debug
    THEN /\ OverlayCalls
              = <<Call("set_title", <<as_millis(cpu_dt), as_millis(clock)>>)>>
         /\ Last(calls) = OverlayCalls[1]
         /\ title = [kind |-> "debug", cpu |-> as_millis(cpu_dt),
                     frame |-> as_millis(clock)]
         /\ clock - (emulation_dt + Slept) \in OverrunChoices
         /\ \E w \in WorkChoices : cpu_dt = w[1] /\ emulation_dt = w[2]
    ELSE OverlayCalls = <<>>

\* the iteration that turned the flag on took 5 ms, slept 15 ms and shows
\* 5 ms and 20 ms
C12_Witness ==
    /\ Completed /\ debug /\ event = SwitchDebug
    /\ cpu_dt = 5 * NsPerMs /\ emulation_dt = 5 * NsPerMs
    /\ SleepCalls = <<Call("sleep", <<15 * NsPerMs>>)>>
    /\ title = [kind |-> "debug", cpu |-> 5, frame |-> 20]

---------------------------------------------------------------------------
\* "CPU:   5.000ms; FRAME:  20.000ms"
C13_Text_5_20 ==
    <<"C", "P", "U", ":", " ", " ", " ", "5", ".", "0", "0", "0", "m", "s",
      ";", " ", "F", "R", "A", "M", "E", ":", " ", " ", "2", "0", ".", "0",
      "0", "0", "m", "s">>

\* two durations in the same millisecond, a microsecond or more apart
C13_Apart(a, b) ==
    /\ as_millis(a) = as_millis(b)
    /\ (a - b >= 1000 \/ b - a >= 1000)

(* C13 as stated: the overlay keeps microseconds: a completed iteration    *)
(* with the flag set that measured 5 ms of cpu time and 20 ms in all shows *)
(* "CPU:   5.000ms; FRAME:  20.000ms", and a cpu time in the same          *)
(* millisecond but a microsecond or more away would have given another     *)
(* text.                                                                   *)

C13_Original ==
    (Completed /\ debug) =>
        /\ (cpu_dt = 5 * NsPerMs /\ clock = 20 * NsPerMs)
              => title_text(title) = C13_Text_5_20
        /\ \A w \in WorkChoices :
              C13_Apart(w[1], cpu_dt)
                  => title_text(DebugTitle(w[1], clock)) # title_text(title)

\* what the code shows of 5 ms and 20 ms: "CPU:       5ms; FRAME:     20ms"
C13_Witness ==
    /\ Completed /\ debug
    /\ cpu_dt = 5 * NsPerMs /\ clock = 20 * NsPerMs
    /\ title_text(title) =
         <<"C", "P", "U", ":", " ", " ", " ", " ", " ", " ", " ", "5", "m",
           "s", ";", " ", "F", "R", "A", "M", "E", ":", " ", " ", " ", " ",
           " ", "2", "0", "m", "s">>

---------------------------------------------------------------------------
\* the iteration begun last is over: run to its end or left at Exit
IterationOver == Completed \/ pc = "done"

\* the places in the log where an operation is called with given arguments
PlacesOf(op, args) == {i \in 1..Len(calls) : calls[i] = Call(op, args)}

(* C14 as stated: an iteration that is over has called                     *)
(* reset_dirty_regions once for the border buffer (1) and once for the     *)
(* canvas buffer (2), each after the update_texture call that uploaded     *)
(* that buffer.                                                            *)

C14_Original ==
    IterationOver =>
        \A b \in {1, 2} :
            /\ Cardinality(PlacesOf("reset_dirty_regions", <<b>>)) = 1
            /\ \A r \in PlacesOf("reset_dirty_regions", <<b>>) :
                   \E u \in PlacesOf("update_texture", <<b>>) : u < r

\* two iterations ran to their end; the second uploaded both buffers and
\* reset neither
C14_Witness ==
    /\ Completed /\ iter = 2
    /\ CallsOf(calls, "update_texture")
         = <<Call("update_texture", <<1>>), Call("update_texture", <<2>>)>>
    /\ CallsOf(calls, "reset_dirty_regions") = <<>>

---------------------------------------------------------------------------
\* the calls of an iteration from its first up to its poll: the advance
\* with the 100 ms budget, what the audio step sent, the two uploads, the
\* present cycle with the border over the whole scaled window and the
\* canvas at its scaled offset, the poll
C15_UpToPoll(sent) ==
    <<Call("emulate_frames", <<100 * NsPerMs>>)>> \o sent
        \o <<Call("update_texture", <<1>>), Call("update_texture", <<2>>),
             Call("begin", <<>>),
             Call("draw_texture_2d",
                  <<1, [x |-> 0, y |-> 0, w |-> SCREEN_WIDTH * scale,
                        h |-> SCREEN_HEIGHT * scale]>>),
             Call("draw_texture_2d",
                  <<2, [x |-> CANVAS_X * scale, y |-> CANVAS_Y * scale,
                        w |-> CANVAS_WIDTH * scale,
                        h |-> CANVAS_HEIGHT * scale]>>),
             Call("end", <<>>), Call("pop_event", <<>>)>>

\* the operations of the audio and video steps and of the advance
C15_FrameOps ==
    {"emulate_frames", "send_sample", "update_texture", "begin",
     "draw_texture_2d", "end"}

(* C15 (under PresentSpec, for each display scale): an iteration that has  *)
(* polled, the one ended by Exit too, has made up to its poll exactly      *)
(* these calls in this order: emulate_frames with the 100 ms budget, the   *)
(* samples of the audio step, update_texture of the border, of the canvas, *)
(* begin, the border drawn over the scaled window, the canvas drawn at its *)
(* scaled offset, end, and the one poll; after the poll it makes no audio  *)
(* or video call and does not advance the emulator.                        *)

C15_StepOrder ==
    Polled =>
        LET sent == CallsOf(calls, "send_sample")
            n == Len(C15_UpToPoll(sent))
        IN  /\ Len(calls) >= n
            /\ SubSeq(calls, 1, n) = C15_UpToPoll(sent)
            /\ \A i \in (n + 1)..Len(calls) : calls[i].op \notin C15_FrameOps
            /\ sent # <<>> => snd

\* an iteration at scale 2 sent two samples, drew the canvas at twice its
\* offset and left at Exit
C15_Witness ==
    /\ pc = "done" /\ scale = 2
    /\ Len(CallsOf(calls, "send_sample")) = 2
    /\ \E i \in 1..Len(calls) :
          /\ calls[i].op = "draw_texture_2d"
          /\ calls[i].args[2].x = 2 * CANVAS_X
          /\ calls[i].args[2].y = 2 * CANVAS_Y

---------------------------------------------------------------------------
\* the calls that control the emulator: keyboard, speed, joystick, tape
ControlOps == {"send_key", "set_speed", "joy_key", "tape_play", "tape_stop"}

\* the control calls of this iteration, in the order they were made
ControlCalls == SelectSeq(calls, LAMBDA c : c.op \in ControlOps)

\* the call right after the poll, if there is one
AfterPoll ==
    LET at == {i \in 1..Len(calls) : calls[i].op = "pop_event"}
    IN  {calls[i + 1] : i \in {j \in at : j < Len(calls)}}

(* C16: an iteration that polled GameKey(key, state) has made one control  *)
(* call, send_key(key, state), right after the poll; one that polled       *)
(* InsertTape one control call, tape.play(); one that polled StopTape one  *)
(* control call, tape.stop(); and an iteration that polled none of these   *)
(* has called neither send_key nor tape.play() nor tape.stop().            *)

C16_KeyAndTapeForwarded ==
    CASE event.kind = "GameKey" ->
            /\ ControlCalls = <<Call("send_key", event.args)>>
            /\ Call("send_key", event.args) \in AfterPoll
      [] event.kind = "InsertTape" ->
            /\ ControlCalls = <<Call("tape_play", <<>>)>>
            /\ Call("tape_play", <<>>) \in AfterPoll
      [] event.kind = "StopTape" ->
            /\ ControlCalls = <<Call("tape_stop", <<>>)>>
            /\ Call("tape_stop", <<>>) \in AfterPoll
      [] OTHER ->
            \A i \in 1..Len(calls) :
                calls[i].op \notin {"send_key", "tape_play", "tape_stop"}

\* the first iteration started the tape, the second forwarded the release
\* of key 1
C16_Witness ==
    /\ pc = "title" /\ iter = 2 /\ consumed = 2
    /\ event = GameKey(1, 0)
    /\ ControlCalls = <<Call("send_key", <<1, 0>>)>>

---------------------------------------------------------------------------
\* the step is the poll of line 163 and pop_event returns an event of a kind
PollsKind(kind) == pc = "poll" /\ polls' # polls /\ pop_event.kind = kind

\* the step leaves the emulator's controls, the flag and the title as they
\* are and the loop goes on to the frame sync
C17_NothingButPoll ==
    /\ calls' = Append(calls, Call("pop_event", <<>>))
    /\ UNCHANGED <<debug, title, speed, haveSound, kempston, mixer, snd>>
    /\ pc' = "sleep"

(* C17: the poll of OpenFile, and the poll of Kempston with no joystick    *)
(* attached, make no call but pop_event and change neither the emulator's  *)
(* controls nor the debug flag nor the title, and the loop goes on; the    *)
(* poll of Kempston(key, state) with a joystick attached makes one call    *)
(* more, the joystick's key(key, state), and changes nothing else.         *)

C17_NoOpEvents ==
    [][/\ (PollsKind("OpenFile") \/ (PollsKind("Kempston") /\ ~kempston))
              => C17_NothingButPoll
       /\ (PollsKind("Kempston") /\ kempston) =>
              /\ calls' = calls \o <<Call("pop_event", <<>>),
                                      Call("joy_key", pop_event.args)>>
              /\ UNCHANGED <<debug, title, speed, haveSound, kempston,
                             mixer, snd>>
              /\ pc' = "sleep"]_vars

\* Kempston was polled with no joystick and the debug flag set: no control
\* call, the overlay of the iteration before still the title
C17_Witness ==
    /\ pc = "sleep" /\ iter = 2 /\ ~kempston /\ event = Kempston(2, 1)
    /\ debug /\ title.kind = "debug"
    /\ ControlCalls = <<>>
    /\ Last(calls) = Call("pop_event", <<>>)

---------------------------------------------------------------------------
\* the samples sent so far in this iteration
SentCount(log) == Len(CallsOf(log, "send_sample"))

(* C18: without a sound device no step takes a sample from the mixer or    *)
(* sends one, whatever the emulator says of its sound; and a step that     *)
(* takes a sample from the mixer or sends one is the audio step of an      *)
(* iteration in which a sound device exists and the emulator has sound.    *)

C18_NoDeviceNoDrain ==
    [][/\ ~snd => (Len(mixer') >= Len(mixer) /\ SentCount(calls') = 0)
       /\ (Len(mixer') < Len(mixer) \/ SentCount(calls') > SentCount(calls))
              => (pc = "audio" /\ snd /\ haveSound)]_vars

\* past the audio step of the second iteration with no sound device, the
\* emulator having sound and the mixer full
C18_Witness ==
    /\ pc = "video" /\ iter = 2 /\ ~snd /\ haveSound
    /\ Len(mixer) = MaxMixer
    /\ CallsOf(calls, "send_sample") = <<>>

---------------------------------------------------------------------------
\* the sleep line 199 takes with what have_sound() returns at this step
C19_SleepNow ==
    ((frame_target_dt - clock) * (IF haveSound THEN 9 ELSE 10)) \div 10

(* C19: the frame sync of an iteration that is short of its target sleeps  *)
(* by the coefficient of what have_sound() returns at that step, after the *)
(* event of the iteration was handled: 9 with sound, 10 without, with or   *)
(* without a sound device and whatever the audio step of the iteration     *)
(* did; so a ChangeSpeed that switches the sound counts for the sleep of   *)
(* its own iteration, whose audio step went by the value before.           *)

C19_CoefficientAfterEvent ==
    [][(pc = "sleep" /\ clock < frame_target_dt) =>
          /\ calls' = Append(calls, Call("sleep", <<C19_SleepNow>>))
          /\ clock' - (clock + C19_SleepNow) \in OverrunChoices]_vars

\* the audio step sent the samples, as the emulator had sound; ChangeSpeed
\* then switched the sound off and the sleep took the whole 15 ms
C19_Witness ==
    /\ pc = "title" /\ snd /\ ~haveSound /\ event = ChangeSpeed(2)
    /\ Len(CallsOf(calls, "send_sample")) = 2
    /\ emulation_dt = 5 * NsPerMs
    /\ SleepCalls = <<Call("sleep", <<15 * NsPerMs>>)>>

---------------------------------------------------------------------------
RECURSIVE FirstExit(_)
\* the place of the first Exit in a queue, 0 if it holds none
FirstExit(q) ==
    IF q = <<>> THEN 0
    ELSE IF Head(q) = Exit THEN 1
    ELSE IF FirstExit(Tail(q)) = 0 THEN 0
    ELSE 1 + FirstExit(Tail(q))

\* K: the place of the first Exit in the queue as it was at the start,
\* as long as that Exit is pending
C20_K == consumed + FirstExit(events)

\* until Exit is polled the loop runs, one event taken per poll; over, it
\* is in the iteration that took Exit, with as many polls and events taken
C20_State ==
    /\ ~exit_polled =>
          /\ pc # "done"
          /\ FirstExit(events) > 0
          /\ consumed = polls
          /\ iter <= C20_K
    /\ pc = "done" =>
          /\ event = Exit
          /\ iter = consumed /\ polls = consumed

\* K stays what it was; a poll takes the head of the queue in the
\* iteration of that number; the poll that takes Exit is that of iteration
\* K and leaves what is behind Exit, which then stays
C20_Step ==
    /\ ~exit_polled' => C20_K' = C20_K
    /\ consumed' # consumed =>
          /\ pc = "poll"
          /\ event' = Head(events) /\ events' = Tail(events)
          /\ consumed' = iter
    /\ (~exit_polled /\ exit_polled') =>
          /\ iter = C20_K
          /\ events' = SubSeq(events, FirstExit(events) + 1, Len(events))
          /\ pc' = "done"
    /\ pc = "done" => UNCHANGED <<events, consumed, iter>>

(* C20 (under QueueSpec: the queue there from the start with its first     *)
(* Exit at place K, every step of the loop taken in the end): the loop     *)
(* ends; it ends in iteration K; the events before Exit are taken one per  *)
(* iteration, the i-th in iteration i; and the events behind Exit stay in  *)
(* the queue for ever.                                                     *)

===========================================================================
